---- MODULE Spec2Model ----
(***************************************************************************)
(* A model of overviewer_core/dispatcher.py: the phase loop of             *)
(* Dispatcher.render_all, the shared tileset list of                       *)
(* MultiprocessingDispatcherManager, the worker loop of                    *)
(* MultiprocessingDispatcherProcess.run and the job accounting of          *)
(* MultiprocessingDispatcher.                                              *)
(*                                                                         *)
(* One dispatcher process (position pc) and local_procs worker processes   *)
(* (positions wpc[w]) interleave at the granularity of their operations on *)
(* the shared objects: the two queues and the manager's tileset_data list. *)
(* Statements that touch only dispatcher-private attributes are taken      *)
(* together with the queue operation they follow.                          *)
(*                                                                         *)
(* Python indices are kept 0-based in jobs; a tileset list is a TLA+       *)
(* sequence, so tilesets[ti] of the code is tilesets[ti + 1] here.         *)
(***************************************************************************)
EXTENDS Integers, Sequences, FiniteSets, TLC

\* ------------------------------------------------------------------ bounds
\* the largest number of worker processes (local_procs) explored
MaxProcs == 2
\* the largest number of successive render_all calls on one dispatcher
MaxRuns == 2
\* the largest number of tilesets in a list handed to render_all
MaxSources == 3
\* the number of calls a caller of the bare hooks may make
MaxCalls == 3

\* `self.local_procs * 10` in MultiprocessingDispatcher.dispatch
K == 10

\* ------------------------------------------------------------ the tilesets
\* The tilesets are external objects; the dispatcher uses get_num_phases(),
\* iterate_work_items(phase), do_preprocessing() and do_work(workitem).
\* WorkItems(t)[p + 1] is what iterate_work_items(p) yields for tileset t.
WorkItems(t) ==
    CASE t = "A" -> << <<1, 2>>, <<3>> >>
      [] t = "B" -> << <<1>> >>
      [] t = "X" -> << <<1, 2, 3>> >>
      [] t = "Z" -> << <<1, 2>> >>
      [] t = "T" -> << [k \in 1..(MaxProcs * K + 1) |-> 0] >>

get_num_phases(t) == Len(WorkItems(t))

iterate_work_items(t, p) == WorkItems(t)[p + 1]

\* every work item tileset t can yield, in any phase
AllItems(t) ==
    UNION {{WorkItems(t)[p][k] : k \in 1..Len(WorkItems(t)[p])} :
           p \in 1..Len(WorkItems(t))}

\* the phase whose iterate_work_items yields the item (items of the
\* tilesets above are distinct across the phases of one tileset)
PhaseOf(t, item) ==
    CHOOSE p \in 0..(get_num_phases(t) - 1) :
        \E k \in 1..Len(iterate_work_items(t, p)) :
            iterate_work_items(t, p)[k] = item

\* ------------------------------------------------------------------ helpers
Range(s) == {s[i] : i \in 1..Len(s)}

SetMax(S) == CHOOSE m \in S : \A x \in S : x <= m

\* all sequences of at most n distinct elements of S
RECURSIVE DistinctSeqs(_, _)
DistinctSeqs(S, n) ==
    IF n = 0 THEN {<<>>}
    ELSE LET shorter == DistinctSeqs(S, n - 1)
             longest == {q \in shorter : Len(q) = n - 1}
         IN  shorter \cup
             UNION {{Append(q, x) : x \in S \ Range(q)} : q \in longest}

\* the end-of-jobs sentinel None of close() and run()
None == <<>>

\* the opaque value do_work returns; the dispatcher only counts results
Result == "result"

BagAdd(b, e) ==
    IF e \in DOMAIN b THEN [b EXCEPT ![e] = @ + 1] ELSE b @@ (e :> 1)

EmptyBag == <<>>

VARIABLES
    \* ---- the dispatcher process
    pc,               \* its position
    in_render_all,    \* render_all is running (its hooks return into it)
    arg,              \* the tilesets argument of the running set_tilesets
    tilesetlist,      \* render_all's argument (<<>> outside render_all)
    pre_i,            \* render_all: tilesets preprocessed so far
    phase,            \* render_all: the loop variable of line 44
    work,             \* render_all: what util.roundrobin has yet to yield
    hm_ret,           \* the loop that called _handle_messages
    close_i,          \* close: sentinels put so far
    outstanding_jobs, \* MultiprocessingDispatcher.outstanding_jobs
    raised,           \* the exception the last hook call raised, or "none"
    \* ---- the manager
    mgr_tilesets,     \* manager.tilesets (the dispatcher's own attribute)
    mgr_version,      \* manager.tileset_version (the dispatcher's own)
    tileset_data,     \* the shared list proxy: <<tilesets, version>>
    manager_up,       \* the manager's server process is running
    job_queue,
    result_queue,
    \* ---- the worker processes
    local_procs,
    wpc,              \* position of each worker in run()
    wjob,             \* the job it holds
    wtilesets,        \* its self.tilesets
    wversion,         \* its self.tileset_version
    \* ---- the caller of the dispatcher
    lists,            \* the tileset lists it may pass
    runs,             \* render_all calls it may still make
    budget,           \* calls of the hooks it may still make itself
    \* ---- history
    pubs,             \* pubs[v]: the list set_tilesets published as version v
    dispatched,       \* jobs put on the job queue so far
    drained,          \* results taken off the result queue so far
    executed,         \* bag of <<tileset, workitem>> do_work calls, this run
    calls             \* the hook calls render_all has made, this run

vars == <<pc, in_render_all, arg, tilesetlist, pre_i, phase, work, hm_ret, close_i,
          outstanding_jobs, raised, mgr_tilesets, mgr_version, tileset_data,
          manager_up, job_queue, result_queue, local_procs, wpc, wjob,
          wtilesets, wversion, lists, runs, budget, pubs,
          dispatched, drained, executed, calls>>

dispatcher_vars == <<pc, in_render_all, arg, tilesetlist, pre_i, phase, work, hm_ret, close_i,
                     outstanding_jobs, raised, mgr_tilesets, mgr_version>>

worker_vars == <<wpc, wjob, wtilesets, wversion>>

caller_vars == <<lists, runs, budget>>

Procs == 1..local_procs

\* MultiprocessingDispatcher.__init__ and MultiprocessingDispatcherManager
\* .__init__ have run: the counter is 0, the shared list is [[], 0], and the
\* workers are started but have not yet made their first update_tilesets.
InitWith(procs, ls, r, b) ==
    /\ pc = "idle"
    /\ in_render_all = FALSE
    /\ arg = <<>>
    /\ tilesetlist = <<>>
    /\ pre_i = 0
    /\ phase = 0
    /\ work = <<>>
    /\ hm_ret = "none"
    /\ close_i = 0
    /\ outstanding_jobs = 0
    /\ raised = "none"
    /\ mgr_tilesets = <<>>
    /\ mgr_version = 0
    /\ tileset_data = << <<>>, 0 >>
    /\ manager_up = TRUE
    /\ job_queue = <<>>
    /\ result_queue = <<>>
    /\ local_procs \in procs
    /\ wpc = [w \in 1..local_procs |-> "start"]
    /\ wjob = [w \in 1..local_procs |-> None]
    /\ wtilesets = [w \in 1..local_procs |-> <<>>]
    /\ wversion = [w \in 1..local_procs |-> -1]
    /\ lists = ls
    /\ runs = r
    /\ budget = b
    /\ pubs = <<>>
    /\ dispatched = 0
    /\ drained = 0
    /\ executed = EmptyBag
    /\ calls = <<>>

\* ------------------------------------------------- the manager (lines 106-122)
\* a faulty variant: the version is not incremented
NextVersionSame(v) == v

\* `self.tileset_version += 1`
NextVersion(v) == v + 1

\* set_tilesets, lines 113-115: the dispatcher's own attributes are set and
\* the first element of the shared list is replaced (one proxy call).
SetTilesetsList ==
    /\ pc = "set_tilesets"
    /\ mgr_tilesets' = arg
    /\ mgr_version' = NextVersion(mgr_version)
    /\ tileset_data' = <<arg, tileset_data[2]>>
    /\ pubs' = Append(pubs, arg)
    /\ pc' = "set_tilesets_version"
    /\ UNCHANGED <<in_render_all, arg, tilesetlist, pre_i, phase, work,
                   hm_ret, close_i, outstanding_jobs, raised, manager_up,
                   job_queue, result_queue, local_procs, worker_vars,
                   caller_vars, dispatched, drained, executed, calls>>

\* set_tilesets, line 116: the second element of the shared list is
\* replaced (another proxy call), and setup_tilesets returns.
SetTilesetsVersion ==
    /\ pc = "set_tilesets_version"
    /\ tileset_data' = <<tileset_data[1], mgr_version>>
    /\ pc' = IF in_render_all THEN "preprocessing" ELSE "idle"
    /\ arg' = <<>>
    /\ UNCHANGED <<in_render_all, tilesetlist, pre_i, phase, work, hm_ret,
                   close_i, outstanding_jobs, raised, mgr_tilesets,
                   mgr_version, manager_up, job_queue, result_queue,
                   local_procs, worker_vars, caller_vars, pubs, dispatched,
                   drained, executed, calls>>

\* get_tilesets: `self.tileset_data._getvalue()`, one proxy call that
\* copies the shared list as it is at that moment.
get_tilesets == tileset_data

\* --------------------------------- MultiprocessingDispatcher (lines 213-243)
\* `self.manager.tilesets.index(tileset)`: the 0-based position of the
\* first equal element
index(tilesets, tileset) ==
    (CHOOSE i \in 1..Len(tilesets) :
        /\ tilesets[i] = tileset
        /\ \A j \in 1..(i - 1) : tilesets[j] # tileset) - 1

\* a faulty variant: the threshold is one too high
ThresholdLax == local_procs * K + 1

\* `self.local_procs * 10`
Threshold == local_procs * K

\* the loop condition of dispatch, line 223
BackpressureCond == outstanding_jobs > Threshold

\* a faulty variant: the barrier leaves one job behind
FinishWorkCondLax == outstanding_jobs > 1

\* the loop condition of finish_work, line 228
FinishWorkCond == outstanding_jobs > 0

\* a faulty variant: the job is not stamped with the current version
JobUnversioned(tileset, workitem) ==
    <<0, index(mgr_tilesets, tileset), workitem>>

\* a faulty variant: the job always names the first tileset of the list
JobOfFirst(tileset, workitem) == <<mgr_version, 0, workitem>>

\* the job dispatch builds, line 219
Job(tileset, workitem) ==
    <<mgr_version, index(mgr_tilesets, tileset), workitem>>

\* a faulty variant: a tileset that is not in the list is skipped silently
dispatch_skipping(tileset, workitem) ==
    IF tileset \notin Range(mgr_tilesets)
    THEN /\ raised' = "none"
         /\ pc' = IF in_render_all THEN "roundrobin" ELSE "idle"
         /\ UNCHANGED <<in_render_all, job_queue, outstanding_jobs,
                        dispatched>>
    ELSE /\ job_queue' = Append(job_queue, Job(tileset, workitem))
         /\ outstanding_jobs' = outstanding_jobs + 1
         /\ dispatched' = dispatched + 1
         /\ raised' = "none"
         /\ pc' = "backpressure"
         /\ UNCHANGED in_render_all

\* dispatch, lines 218-220. index() raises ValueError for a tileset that is
\* not in manager.tilesets, before anything is changed.
dispatch(tileset, workitem) ==
    IF tileset \notin Range(mgr_tilesets)
    THEN /\ raised' = "ValueError"
         /\ pc' = "idle"
         /\ in_render_all' = FALSE
         /\ UNCHANGED <<job_queue, outstanding_jobs, dispatched>>
    ELSE /\ job_queue' = Append(job_queue, Job(tileset, workitem))
         /\ outstanding_jobs' = outstanding_jobs + 1
         /\ dispatched' = dispatched + 1
         /\ raised' = "none"
         /\ pc' = "backpressure"
         /\ UNCHANGED in_render_all

\* dispatch, lines 223-224: the test of the backpressure loop. The loop
\* calls _handle_messages again, or dispatch returns, to render_all's
\* round-robin loop or to the caller.
DispatchLoop ==
    /\ pc = "backpressure"
    /\ IF BackpressureCond
       THEN /\ pc' = "handle_messages"
            /\ hm_ret' = "backpressure"
       ELSE /\ pc' = IF in_render_all THEN "roundrobin" ELSE "idle"
            /\ UNCHANGED hm_ret
    /\ UNCHANGED <<in_render_all, arg, tilesetlist, pre_i, phase, work,
                   close_i, outstanding_jobs, raised, mgr_tilesets,
                   mgr_version, tileset_data, manager_up, job_queue,
                   result_queue, local_procs, worker_vars, caller_vars, pubs,
                   dispatched, drained, executed, calls>>

\* finish_work, lines 228-229: the test of the loop. The loop calls
\* _handle_messages again, or finish_work returns; in render_all the phase
\* loop then goes on (line 44).
FinishWorkLoop ==
    /\ pc = "finish_work"
    /\ IF FinishWorkCond
       THEN /\ pc' = "handle_messages"
            /\ hm_ret' = "finish_work"
            /\ UNCHANGED phase
       ELSE /\ pc' = IF in_render_all THEN "phase" ELSE "idle"
            /\ phase' = IF in_render_all THEN phase + 1 ELSE phase
            /\ UNCHANGED hm_ret
    /\ UNCHANGED <<in_render_all, arg, tilesetlist, pre_i, work, close_i,
                   outstanding_jobs, raised, mgr_tilesets, mgr_version,
                   tileset_data, manager_up, job_queue, result_queue,
                   local_procs, worker_vars, caller_vars, pubs, dispatched,
                   drained, executed, calls>>

\* a faulty variant: a drained result is not counted
CountedNot(n) == n

\* `self.outstanding_jobs -= 1`
Counted(n) == n - 1

\* _handle_messages, line 237 with timeout 1.0 or 0.0: a result is there,
\* it is taken and counted, and the loop goes on with timeout 0.0
HandleResult ==
    /\ pc \in {"handle_messages", "handle_more"}
    /\ result_queue # <<>>
    /\ result_queue' = Tail(result_queue)
    /\ outstanding_jobs' = Counted(outstanding_jobs)
    /\ drained' = drained + 1
    /\ pc' = "handle_more"
    /\ UNCHANGED <<in_render_all, arg, tilesetlist, pre_i, phase, work,
                   hm_ret, close_i, raised, mgr_tilesets, mgr_version,
                   tileset_data, manager_up, job_queue, local_procs,
                   worker_vars, caller_vars, pubs, dispatched, executed,
                   calls>>

\* _handle_messages, lines 242-243: the get timed out on an empty queue
\* (Queue.Empty), and _handle_messages returns to the loop that called it
HandleEmpty ==
    /\ pc \in {"handle_messages", "handle_more"}
    /\ result_queue = <<>>
    /\ pc' = hm_ret
    /\ hm_ret' = "none"
    /\ UNCHANGED <<in_render_all, arg, tilesetlist, pre_i, phase, work,
                   close_i, outstanding_jobs, raised, mgr_tilesets,
                   mgr_version, tileset_data, manager_up, job_queue,
                   result_queue, local_procs, worker_vars, caller_vars, pubs,
                   dispatched, drained, executed, calls>>

\* close, lines 205-206: one sentinel per process of the pool
ClosePutSentinel ==
    /\ pc = "close"
    /\ close_i < local_procs
    /\ job_queue' = Append(job_queue, None)
    /\ close_i' = close_i + 1
    /\ UNCHANGED <<pc, in_render_all, arg, tilesetlist, pre_i, phase, work,
                   hm_ret, outstanding_jobs, raised, mgr_tilesets,
                   mgr_version, tileset_data, manager_up, result_queue,
                   local_procs, worker_vars, caller_vars, pubs, dispatched,
                   drained, executed, calls>>

\* close, lines 209-211: the manager's server process is shut down, without
\* waiting for the workers
CloseShutdown ==
    /\ pc = "close"
    /\ close_i = local_procs
    /\ manager_up' = FALSE
    /\ pc' = "closed"
    /\ UNCHANGED <<in_render_all, arg, tilesetlist, pre_i, phase, work,
                   hm_ret, close_i, outstanding_jobs, raised, mgr_tilesets,
                   mgr_version, tileset_data, job_queue, result_queue,
                   local_procs, worker_vars, caller_vars, pubs, dispatched,
                   drained, executed, calls>>

\* ------------------------------------------------ util.roundrobin (line 54)
\* One element of each iterator in turn, in the order of the list; an
\* exhausted iterator leaves the rotation.
RECURSIVE roundrobin(_)
roundrobin(iterators) ==
    IF iterators = <<>> THEN <<>>
    ELSE LET it == Head(iterators)
         IN  IF it = <<>>
             THEN roundrobin(Tail(iterators))
             ELSE <<Head(it)>> \o roundrobin(Append(Tail(iterators), Tail(it)))

\* ------------------------------------------- Dispatcher.render_all (29-58)
\* line 43
num_phases(tl) == [i \in 1..Len(tl) |-> get_num_phases(tl[i])]

\* `max(num_phases)`
max_phases(tl) == SetMax(Range(num_phases(tl)))

\* a faulty variant: the last phase of every tileset is left out
InPhaseShort(p, n) == p + 1 < n

\* `phase < num_phases[i]`, line 48
InPhase(p, n) == p < n

\* lines 49-50: the generator of (tset, workitem) pairs
make_work_iterator(tset, p) ==
    [k \in 1..Len(iterate_work_items(tset, p)) |->
        <<tset, iterate_work_items(tset, p)[k]>>]

\* a faulty variant: the iterators are collected in the reverse of the list order
work_iterators_reversed(tl, p) ==
    LET ts == SelectSeq(tl, LAMBDA t : InPhase(p, get_num_phases(t)))
    IN  [i \in 1..Len(ts) |-> make_work_iterator(ts[Len(ts) + 1 - i], p)]

\* lines 46-51: one iterator per tileset that has this phase, in list order
work_iterators(tl, p) ==
    LET ts == SelectSeq(tl, LAMBDA t : InPhase(p, get_num_phases(t)))
    IN  [i \in 1..Len(ts) |-> make_work_iterator(ts[i], p)]

\* render_all on the base Dispatcher, whose dispatch (lines 77-81) calls
\* tileset.do_work(workitem) before it returns and whose finish_work does
\* nothing: the do_work calls of phase p are the pairs of the merged
\* iterator of that phase, in its order
SequentialWork(tl, p) == roundrobin(work_iterators(tl, p))

\* render_all is called: line 36, setup_tilesets(tilesetlist)
RenderAll(tl) ==
    /\ pc = "idle"
    /\ runs > 0
    /\ runs' = runs - 1
    /\ in_render_all' = TRUE
    /\ tilesetlist' = tl
    /\ arg' = tl
    /\ pre_i' = 0
    /\ phase' = 0
    /\ work' = <<>>
    /\ raised' = "none"
    /\ executed' = EmptyBag
    /\ calls' = << <<"setup_tilesets", tl>> >>
    /\ pc' = "set_tilesets"
    /\ UNCHANGED <<hm_ret, close_i, outstanding_jobs, mgr_tilesets,
                   mgr_version, tileset_data, manager_up, job_queue,
                   result_queue, local_procs, worker_vars, lists, budget, pubs,
                   dispatched, drained>>

\* lines 39-40: the next tileset is preprocessed
DoPreprocessing ==
    /\ pc = "preprocessing"
    /\ pre_i < Len(tilesetlist)
    /\ pre_i' = pre_i + 1
    /\ calls' = Append(calls, <<"do_preprocessing", tilesetlist[pre_i + 1]>>)
    /\ UNCHANGED <<pc, in_render_all, arg, tilesetlist, phase, work, hm_ret,
                   close_i, outstanding_jobs, raised, mgr_tilesets,
                   mgr_version, tileset_data, manager_up, job_queue,
                   result_queue, local_procs, worker_vars, caller_vars, pubs,
                   dispatched, drained, executed>>

\* a faulty variant: the preprocessing loop ends one tileset early
PreprocessingDoneEarly ==
    /\ pc = "preprocessing"
    /\ pre_i + 1 >= Len(tilesetlist)
    /\ phase' = 0
    /\ pc' = "phase"
    /\ UNCHANGED <<in_render_all, arg, tilesetlist, pre_i, work, hm_ret,
                   close_i, outstanding_jobs, raised, mgr_tilesets,
                   mgr_version, tileset_data, manager_up, job_queue,
                   result_queue, local_procs, worker_vars, caller_vars, pubs,
                   dispatched, drained, executed, calls>>

\* lines 43-44: the preprocessing loop is over, the phase loop starts
PreprocessingDone ==
    /\ pc = "preprocessing"
    /\ pre_i = Len(tilesetlist)
    /\ phase' = 0
    /\ pc' = "phase"
    /\ UNCHANGED <<in_render_all, arg, tilesetlist, pre_i, work, hm_ret,
                   close_i, outstanding_jobs, raised, mgr_tilesets,
                   mgr_version, tileset_data, manager_up, job_queue,
                   result_queue, local_procs, worker_vars, caller_vars, pubs,
                   dispatched, drained, executed, calls>>

\* lines 44-54: a phase begins, its iterators are built and merged
PhaseBegin ==
    /\ pc = "phase"
    /\ phase < max_phases(tilesetlist)
    /\ work' = roundrobin(work_iterators(tilesetlist, phase))
    /\ pc' = "roundrobin"
    /\ UNCHANGED <<in_render_all, arg, tilesetlist, pre_i, phase, hm_ret,
                   close_i, outstanding_jobs, raised, mgr_tilesets,
                   mgr_version, tileset_data, manager_up, job_queue,
                   result_queue, local_procs, worker_vars, caller_vars, pubs,
                   dispatched, drained, executed, calls>>

\* lines 54-55: the merged iterator yields, the pair is dispatched
RoundRobinDispatch ==
    /\ pc = "roundrobin"
    /\ work # <<>>
    /\ dispatch(Head(work)[1], Head(work)[2])
    /\ work' = Tail(work)
    /\ calls' = Append(calls, <<"dispatch", Head(work)[1], Head(work)[2]>>)
    /\ UNCHANGED <<arg, tilesetlist, pre_i, phase, hm_ret, close_i,
                   mgr_tilesets, mgr_version, tileset_data, manager_up,
                   result_queue, local_procs, worker_vars, caller_vars, pubs,
                   drained, executed>>

\* line 58: the merged iterator is exhausted, finish_work is called
RoundRobinExhausted ==
    /\ pc = "roundrobin"
    /\ work = <<>>
    /\ calls' = Append(calls, <<"finish_work">>)
    /\ pc' = "finish_work"
    /\ UNCHANGED <<in_render_all, arg, tilesetlist, pre_i, phase, work,
                   hm_ret, close_i, outstanding_jobs, raised, mgr_tilesets,
                   mgr_version, tileset_data, manager_up, job_queue,
                   result_queue, local_procs, worker_vars, caller_vars, pubs,
                   dispatched, drained, executed>>

\* a faulty variant: render_all goes on into close() when the phase loop is over
RenderAllReturnClosing ==
    /\ pc = "phase"
    /\ ~(phase < max_phases(tilesetlist))
    /\ in_render_all' = FALSE
    /\ calls' = Append(calls, <<"return">>)
    /\ close_i' = 0
    /\ pc' = "close"
    /\ UNCHANGED <<arg, tilesetlist, pre_i, phase, work, hm_ret,
                   outstanding_jobs, raised, mgr_tilesets, mgr_version,
                   tileset_data, manager_up, job_queue, result_queue,
                   local_procs, worker_vars, caller_vars, pubs, dispatched,
                   drained, executed>>

\* the phase loop is over: render_all returns (after line 58)
RenderAllReturn ==
    /\ pc = "phase"
    /\ ~(phase < max_phases(tilesetlist))
    /\ in_render_all' = FALSE
    /\ calls' = Append(calls, <<"return">>)
    /\ pc' = "idle"
    /\ UNCHANGED <<arg, tilesetlist, pre_i, phase, work, hm_ret, close_i,
                   outstanding_jobs, raised, mgr_tilesets, mgr_version,
                   tileset_data, manager_up, job_queue, result_queue,
                   local_procs, worker_vars, caller_vars, pubs, dispatched,
                   drained, executed>>

\* ------------------------------------ calls of the hooks by other callers
\* setup_tilesets(tl), line 213
CallSetupTilesets(tl) ==
    /\ pc = "idle"
    /\ budget > 0
    /\ budget' = budget - 1
    /\ arg' = tl
    /\ raised' = "none"
    /\ pc' = "set_tilesets"
    /\ UNCHANGED <<in_render_all, tilesetlist, pre_i, phase, work, hm_ret,
                   close_i, outstanding_jobs, mgr_tilesets, mgr_version,
                   tileset_data, manager_up, job_queue, result_queue,
                   local_procs, worker_vars, lists, runs, pubs, dispatched,
                   drained, executed, calls>>

\* dispatch(tileset, workitem), line 216
CallDispatch(tileset, workitem) ==
    /\ pc = "idle"
    /\ budget > 0
    /\ budget' = budget - 1
    /\ dispatch(tileset, workitem)
    /\ UNCHANGED <<arg, tilesetlist, pre_i, phase, work, hm_ret, close_i,
                   mgr_tilesets, mgr_version, tileset_data, manager_up,
                   result_queue, local_procs, worker_vars, lists, runs, pubs,
                   drained, executed, calls>>

\* finish_work(), line 226
CallFinishWork ==
    /\ pc = "idle"
    /\ budget > 0
    /\ budget' = budget - 1
    /\ raised' = "none"
    /\ pc' = "finish_work"
    /\ UNCHANGED <<in_render_all, arg, tilesetlist, pre_i, phase, work,
                   hm_ret, close_i, outstanding_jobs, mgr_tilesets,
                   mgr_version, tileset_data, manager_up, job_queue,
                   result_queue, local_procs, worker_vars, lists, runs, pubs,
                   dispatched, drained, executed, calls>>

\* close(), line 203
CallClose ==
    /\ pc = "idle"
    /\ budget > 0
    /\ budget' = budget - 1
    /\ close_i' = 0
    /\ raised' = "none"
    /\ pc' = "close"
    /\ UNCHANGED <<in_render_all, arg, tilesetlist, pre_i, phase, work,
                   hm_ret, outstanding_jobs, mgr_tilesets, mgr_version,
                   tileset_data, manager_up, job_queue, result_queue,
                   local_procs, worker_vars, lists, runs, pubs, dispatched,
                   drained, executed, calls>>

\* --------------------- MultiprocessingDispatcherProcess (lines 124-174)
\* The worker's queues and its get_tilesets are proxies served by the
\* manager's server process (lines 136-138, 144): every use of them needs
\* that process, and fails with a connection error once it is shut down.

\* update_tilesets, line 144
update_tilesets(w) ==
    /\ wtilesets' = [wtilesets EXCEPT ![w] = get_tilesets[1]]
    /\ wversion' = [wversion EXCEPT ![w] = get_tilesets[2]]

\* a faulty variant: a job of another version is taken as it is
StaleNever(tv, cached) == FALSE

\* `tv != self.tileset_version`, line 165
Stale(tv, cached) == tv # cached

\* a faulty variant: the assertion is not checked
AssertVersionOff(tv, cached) == TRUE

\* `assert tv == self.tileset_version`, line 168
AssertVersion(tv, cached) == tv = cached

\* run, line 154: the first update_tilesets
WorkerStart(w) ==
    /\ wpc[w] = "start"
    /\ manager_up
    /\ update_tilesets(w)
    /\ wpc' = [wpc EXCEPT ![w] = "get"]
    /\ UNCHANGED <<dispatcher_vars, tileset_data, manager_up, job_queue,
                   result_queue, local_procs, wjob, caller_vars, pubs,
                   dispatched, drained, executed, calls>>

\* a faulty variant: the job is read but left in the queue
WorkerGetPeek(w) ==
    /\ wpc[w] = "get"
    /\ manager_up
    /\ job_queue # <<>>
    /\ job_queue' = job_queue
    /\ wjob' = [wjob EXCEPT ![w] = Head(job_queue)]
    /\ wpc' = [wpc EXCEPT ![w] =
                  IF Head(job_queue) = None THEN "returned"
                  ELSE IF Stale(Head(job_queue)[1], wversion[w])
                       THEN "update" ELSE "do_work"]
    /\ UNCHANGED <<dispatcher_vars, tileset_data, manager_up, result_queue,
                   local_procs, wtilesets, wversion, caller_vars, pubs,
                   dispatched, drained, executed, calls>>

\* run, lines 157-165: a job is pulled. None ends the loop; a job of another
\* version than the cached one goes through update_tilesets first. (A get
\* that times out, Queue.Empty, changes nothing and is no step here.)
WorkerGet(w) ==
    /\ wpc[w] = "get"
    /\ manager_up
    /\ job_queue # <<>>
    /\ job_queue' = Tail(job_queue)
    /\ wjob' = [wjob EXCEPT ![w] = Head(job_queue)]
    /\ wpc' = [wpc EXCEPT ![w] =
                  IF Head(job_queue) = None THEN "returned"
                  ELSE IF Stale(Head(job_queue)[1], wversion[w])
                       THEN "update" ELSE "do_work"]
    /\ UNCHANGED <<dispatcher_vars, tileset_data, manager_up, result_queue,
                   local_procs, wtilesets, wversion, caller_vars, pubs,
                   dispatched, drained, executed, calls>>

\* run, lines 167-168: the tilesets are fetched again, and the version
\* must now be the job's, or the AssertionError ends the worker
WorkerUpdate(w) ==
    /\ wpc[w] = "update"
    /\ manager_up
    /\ update_tilesets(w)
    /\ wpc' = [wpc EXCEPT ![w] =
                  IF AssertVersion(wjob[w][1], get_tilesets[2])
                  THEN "do_work" ELSE "assert_failed"]
    /\ UNCHANGED <<dispatcher_vars, tileset_data, manager_up, job_queue,
                   result_queue, local_procs, wjob, caller_vars, pubs,
                   dispatched, drained, executed, calls>>

\* run, line 171: `self.tilesets[ti].do_work(workitem)`; an index beyond
\* the cached list raises IndexError, which ends the worker
WorkerDoWork(w) ==
    /\ wpc[w] = "do_work"
    /\ IF wjob[w][2] + 1 \in DOMAIN wtilesets[w]
       THEN /\ executed' = BagAdd(executed,
                                  <<wtilesets[w][wjob[w][2] + 1], wjob[w][3]>>)
            /\ wpc' = [wpc EXCEPT ![w] = "put"]
       ELSE /\ wpc' = [wpc EXCEPT ![w] = "index_error"]
            /\ UNCHANGED executed
    /\ UNCHANGED <<dispatcher_vars, tileset_data, manager_up, job_queue,
                   result_queue, local_procs, wjob, wtilesets, wversion,
                   caller_vars, pubs, dispatched, drained, calls>>

\* a faulty variant: the job of a failed do_work is put back
WorkerDoWorkRaisesRequeue(w) ==
    /\ wpc[w] = "do_work"
    /\ wjob[w][2] + 1 \in DOMAIN wtilesets[w]
    /\ wpc' = [wpc EXCEPT ![w] = "do_work_raised"]
    /\ job_queue' = Append(job_queue, wjob[w])
    /\ UNCHANGED <<dispatcher_vars, tileset_data, manager_up,
                   result_queue, local_procs, wjob, wtilesets, wversion,
                   caller_vars, pubs, dispatched, drained, executed, calls>>

\* run, line 171: do_work raises. No except clause of run() catches
\* anything but Queue.Empty (line 173), so the exception ends the worker,
\* with the job it pulled and without a result.
WorkerDoWorkRaises(w) ==
    /\ wpc[w] = "do_work"
    /\ wjob[w][2] + 1 \in DOMAIN wtilesets[w]
    /\ wpc' = [wpc EXCEPT ![w] = "do_work_raised"]
    /\ UNCHANGED <<dispatcher_vars, tileset_data, manager_up, job_queue,
                   result_queue, local_procs, wjob, wtilesets, wversion,
                   caller_vars, pubs, dispatched, drained, executed, calls>>

\* a faulty variant: the result is dropped
WorkerPutNothing(w) ==
    /\ wpc[w] = "put"
    /\ manager_up
    /\ wpc' = [wpc EXCEPT ![w] = "get"]
    /\ wjob' = [wjob EXCEPT ![w] = None]
    /\ UNCHANGED <<dispatcher_vars, tileset_data, manager_up, job_queue,
                   result_queue, local_procs, wtilesets, wversion,
                   caller_vars, pubs, dispatched, drained, executed, calls>>

\* run, line 172: the result is put on the result queue
WorkerPut(w) ==
    /\ wpc[w] = "put"
    /\ manager_up
    /\ result_queue' = Append(result_queue, Result)
    /\ wpc' = [wpc EXCEPT ![w] = "get"]
    /\ wjob' = [wjob EXCEPT ![w] = None]
    /\ UNCHANGED <<dispatcher_vars, tileset_data, manager_up, job_queue,
                   local_procs, wtilesets, wversion, caller_vars, pubs,
                   dispatched, drained, executed, calls>>

\* the positions of run() at which the worker uses a proxy of the manager
UsesManager == {"start", "get", "update", "put"}

\* a proxy call after close() has shut the manager down (line 209) raises
\* a connection error, which is not Queue.Empty and ends the worker
WorkerConnLost(w) ==
    /\ wpc[w] \in UsesManager
    /\ ~manager_up
    /\ wpc' = [wpc EXCEPT ![w] = "conn_lost"]
    /\ UNCHANGED <<dispatcher_vars, tileset_data, manager_up, job_queue,
                   result_queue, local_procs, wjob, wtilesets, wversion,
                   caller_vars, pubs, dispatched, drained, executed, calls>>

\* the steps of worker w
Worker(w) ==
    \/ WorkerStart(w)
    \/ WorkerGet(w)
    \/ WorkerUpdate(w)
    \/ WorkerDoWork(w)
    \/ WorkerPut(w)
    \/ WorkerConnLost(w)

\* the steps inside the hooks of MultiprocessingDispatcher
Hooks ==
    \/ SetTilesetsList
    \/ SetTilesetsVersion
    \/ DispatchLoop
    \/ FinishWorkLoop
    \/ HandleResult
    \/ HandleEmpty
    \/ ClosePutSentinel
    \/ CloseShutdown

\* ------------------------------------------------------- specifications
\* every tileset named in a list the caller may pass
Tilesets == UNION {Range(tl) : tl \in lists}

\* The dispatcher is driven through render_all, MaxRuns times at most, and
\* closed by its owner.
RenderLists == {<<"A", "B">>, <<"B">>}

Init ==
    \/ InitWith(1..MaxProcs, RenderLists, MaxRuns, 1)
    \/ InitWith(1..MaxProcs, {<<"X", "B", "Z">>}, 1, 1)

Next ==
    \/ \E tl \in lists : RenderAll(tl)
    \/ DoPreprocessing
    \/ PreprocessingDone
    \/ PhaseBegin
    \/ RoundRobinDispatch
    \/ RoundRobinExhausted
    \/ RenderAllReturn
    \/ CallClose
    \/ Hooks
    \/ \E w \in Procs : Worker(w)

Spec == Init /\ [][Next]_vars

\* render_all of the list <<"T">>, which has a phase of MaxProcs * K + 1
\* equal work items: that is what it takes to make dispatch wait with
\* MaxProcs workers.
InitLong == InitWith(1..MaxProcs, {<<"T">>}, 1, 1)

SpecLong == InitLong /\ [][Next]_vars

\* The hooks are called directly, in any order: setup_tilesets also while
\* jobs are outstanding, dispatch also for a tileset that is not in the
\* list, close also with jobs in the queue.
HookLists == {<<"B">>, <<"T", "B">>}

InitHooks == InitWith(1..MaxProcs, HookLists, 0, MaxCalls)

NextHooks ==
    \/ \E tl \in lists : CallSetupTilesets(tl)
    \/ \E t \in Tilesets : \E item \in AllItems(t) : CallDispatch(t, item)
    \/ CallFinishWork
    \/ CallClose
    \/ Hooks
    \/ \E w \in Procs : Worker(w)

SpecHooks == InitHooks /\ [][NextHooks]_vars

\* The order of render_all's dispatch calls does not depend on the workers:
\* one worker, one run, every list of at most MaxSources distinct tilesets.
SourceLists == DistinctSeqs({"A", "B", "X", "Z"}, MaxSources) \ {<<>>}

InitOrder == InitWith({1}, SourceLists, 1, 1)

SpecOrder == InitOrder /\ [][Next]_vars

\* render_all of the list <<"A", "B">> by running processes, with do_work
\* calls that may raise. The dispatcher is one thread that runs on while it
\* is inside render_all or a hook, and every worker is a process of its
\* own that the operating system keeps scheduling: weak fairness for the
\* dispatcher's steps and for each worker's. The calls of render_all and
\* close are the owner's, and nothing forces them.
InitFair == InitWith(1..MaxProcs, {<<"A", "B">>}, 1, 1)

RenderAllSteps ==
    \/ DoPreprocessing
    \/ PreprocessingDone
    \/ PhaseBegin
    \/ RoundRobinDispatch
    \/ RoundRobinExhausted
    \/ RenderAllReturn

WorkerMayRaise(w) ==
    \/ Worker(w)
    \/ WorkerDoWorkRaises(w)

NextFair ==
    \/ \E tl \in lists : RenderAll(tl)
    \/ RenderAllSteps
    \/ CallClose
    \/ Hooks
    \/ \E w \in Procs : WorkerMayRaise(w)

Fairness ==
    /\ WF_vars(RenderAllSteps \/ Hooks)
    /\ \A w \in 1..MaxProcs : WF_vars(w \in Procs /\ WorkerMayRaise(w))

SpecFair == InitFair /\ [][NextFair]_vars /\ Fairness

\* ------------------------------------------------------------ properties
\* the number of finish_work calls before the i-th call of this run: the
\* phase the i-th call belongs to
MarkersBefore(i) ==
    Cardinality({j \in 1..(i - 1) : calls[j][1] = "finish_work"})

\* the positions in calls of the dispatch calls of phase p
DispatchesOf(p) ==
    {i \in 1..Len(calls) : calls[i][1] = "dispatch" /\ MarkersBefore(i) = p}

\* the phase of the work item of a job, by the list the dispatcher used
JobPhase(job) == PhaseOf(mgr_tilesets[job[2] + 1], job[3])

RECURSIVE BagSum(_, _)
BagSum(b, S) ==
    IF S = {} THEN 0
    ELSE LET e == CHOOSE x \in S : TRUE IN b[e] + BagSum(b, S \ {e})

\* the number of do_work calls of this run for work items of phase p
ExecutedInPhase(p) ==
    BagSum(executed, {e \in DOMAIN executed : PhaseOf(e[1], e[2]) = p})

\* the workers that hold a job: pulled, result not yet put
Holding == {w \in Procs : wpc[w] \in {"update", "do_work", "put"}}

\* C1: phase barrier. While render_all runs, every job that is counted as
\* outstanding, waits in the job queue, is held by a worker or has been
\* executed belongs to a phase no later than the current one; the jobs of
\* every earlier phase have all been executed and their results drained and
\* counted, so that nothing of phase p + 1 is dispatched or executed before
\* phase p is finished.
C1_PhaseBarrier ==
    in_render_all =>
        /\ outstanding_jobs <= Cardinality(DispatchesOf(phase))
        /\ \A i \in 1..Len(job_queue) :
              job_queue[i] # None => JobPhase(job_queue[i]) = phase
        /\ \A w \in Holding : JobPhase(wjob[w]) = phase
        /\ \A e \in DOMAIN executed : PhaseOf(e[1], e[2]) <= phase
        /\ \A p \in 0..(phase - 1) :
              ExecutedInPhase(p) = Cardinality(DispatchesOf(p))

\* a worker executes the work item of phase 1 while another worker is alive
C1_Witness ==
    /\ in_render_all
    /\ phase = 1
    /\ local_procs = 2
    /\ \E w \in Procs : wpc[w] = "do_work" /\ JobPhase(wjob[w]) = 1
    /\ ExecutedInPhase(0) = 3

\* C2: completion accounting. outstanding_jobs is never negative and is
\* the number of jobs put on the job queue minus the number of results
\* taken off the result queue.
C2_Accounting ==
    /\ outstanding_jobs >= 0
    /\ outstanding_jobs = dispatched - drained

\* results have been drained while other jobs are still outstanding
C2_Witness ==
    /\ drained >= 2
    /\ outstanding_jobs >= 2
    /\ dispatched = drained + outstanding_jobs

\* C3: backpressure bound. Whenever dispatch returns, outstanding_jobs is at
\* most local_procs * K.
C3_Backpressure ==
    [][(pc = "backpressure" /\ pc' \in {"roundrobin", "idle"})
          => outstanding_jobs' <= local_procs * K]_vars

\* dispatch has returned after it had to wait: more jobs were dispatched
\* than the bound, and exactly the bound is left outstanding
C3_Witness ==
    /\ pc = "roundrobin"
    /\ local_procs = MaxProcs
    /\ dispatched > local_procs * K
    /\ outstanding_jobs = local_procs * K

\* the pairs the shared list held when a set_tilesets call had completed,
\* and the pair it held at the start
CompletedPairs ==
    {<< <<>>, 0 >>} \cup
    {<<pubs[v], v>> :
        v \in {u \in 1..Len(pubs) :
                  u < Len(pubs) \/ pc # "set_tilesets_version"}}

\* C4: atomic publish. What a worker got from get_tilesets is the pair of
\* some completed publish, or the initial pair.
C4_AtomicPublish ==
    \A w \in Procs :
        wversion[w] >= 0 => <<wtilesets[w], wversion[w]>> \in CompletedPairs

\* C5: correct source resolution. A worker that calls do_work for a job
\* (v, i, item) indexes the list that was published as version v.
C5_SourceResolution ==
    \A w \in Procs :
        wpc[w] = "do_work" => wtilesets[w] = pubs[wjob[w][1]]

\* the ways run() ends
Ended == {"returned", "assert_failed", "index_error", "conn_lost"}

\* C6: shutdown. Once close() is over, local_procs sentinels have been put,
\* and no worker has ended or ends in another way than by pulling a
\* sentinel and returning from run().
C6_Shutdown ==
    pc = "closed" =>
        /\ close_i = local_procs
        /\ \A w \in Procs : wpc[w] \in Ended => wpc[w] = "returned"

\* the dispatch calls of this run, in order
DispatchSeq == SelectSeq(calls, LAMBDA c : c[1] = "dispatch")

\* the 0-based list positions of the tilesets of the dispatch calls
SourceOrder ==
    [i \in 1..Len(DispatchSeq) |-> index(tilesetlist, DispatchSeq[i][2])]

\* how many earlier dispatch calls of the same phase were for the same
\* tileset as the i-th call
Rank(i) ==
    Cardinality({j \in DispatchesOf(MarkersBefore(i)) :
                    j < i /\ calls[j][2] = calls[i][2]})

IsPrefix(s, t) == Len(s) <= Len(t) /\ \A i \in 1..Len(s) : s[i] = t[i]

\* C7: round-robin dispatch order. Within a phase the k-th item of a
\* tileset is dispatched in rotation k, and within a rotation the tilesets
\* come in list order: of two dispatch calls of a phase the earlier one has
\* the smaller (rotation, list position), each call takes the next item of
\* its tileset, and when finish_work is called every item of the phase has
\* been dispatched. For item counts [3,1,2] this is (0,1,2,0,2,0).
C7_RoundRobin ==
    /\ \A i \in 1..Len(calls) : \A j \in 1..Len(calls) :
          (/\ calls[i][1] = "dispatch"
           /\ calls[j][1] = "dispatch"
           /\ i < j
           /\ MarkersBefore(i) = MarkersBefore(j))
          => \/ Rank(i) < Rank(j)
             \/ /\ Rank(i) = Rank(j)
                /\ index(tilesetlist, calls[i][2])
                      < index(tilesetlist, calls[j][2])
    /\ \A i \in 1..Len(calls) :
          (calls[i][1] = "dispatch"
             /\ MarkersBefore(i) < get_num_phases(calls[i][2]))
          => /\ Rank(i) < Len(iterate_work_items(calls[i][2], MarkersBefore(i)))
             /\ calls[i][3] =
                  iterate_work_items(calls[i][2], MarkersBefore(i))[Rank(i) + 1]
    /\ \A i \in 1..Len(calls) :
          calls[i][1] = "finish_work" =>
             \A t \in Range(tilesetlist) :
                MarkersBefore(i) < get_num_phases(t) =>
                   Cardinality({j \in DispatchesOf(MarkersBefore(i)) :
                                   calls[j][2] = t})
                      = Len(iterate_work_items(t, MarkersBefore(i)))
    /\ tilesetlist = <<"X", "B", "Z">> =>
          /\ IsPrefix(SourceOrder, <<0, 1, 2, 0, 2, 0>>)
          /\ pc = "finish_work" => SourceOrder = <<0, 1, 2, 0, 2, 0>>

\* the phase of item counts [3,1,2] has been dispatched
C7_Witness ==
    /\ tilesetlist = <<"X", "B", "Z">>
    /\ pc = "finish_work"
    /\ Len(DispatchSeq) = 6

\* the dispatch and finish_work calls of this run, in order
HookSeq == SelectSeq(calls, LAMBDA c : c[1] \in {"dispatch", "finish_work"})

\* C8: phase participation. Every dispatch call of phase p is for a tileset
\* with more than p phases and for an item of its phase p, so the phases
\* are run in increasing order; when render_all returns, max(num_phases)
\* phases have been finished and every tileset has had all the items of
\* each of its phases dispatched. For A (two phases) and B (one phase) the
\* calls are (A,1),(B,1),(A,2), finish_work, (A,3), finish_work.
C8_Participation ==
    /\ \A i \in 1..Len(calls) :
          calls[i][1] = "dispatch" =>
             /\ MarkersBefore(i) < get_num_phases(calls[i][2])
             /\ PhaseOf(calls[i][2], calls[i][3]) = MarkersBefore(i)
             /\ MarkersBefore(i) < max_phases(tilesetlist)
    /\ (calls # <<>> /\ calls[Len(calls)] = <<"return">>) =>
          /\ MarkersBefore(Len(calls)) = max_phases(tilesetlist)
          /\ \A t \in Range(tilesetlist) :
                \A p \in 0..(get_num_phases(t) - 1) :
                   Cardinality({j \in DispatchesOf(p) : calls[j][2] = t})
                      = Len(iterate_work_items(t, p))
          /\ tilesetlist = <<"A", "B">> =>
                HookSeq = << <<"dispatch", "A", 1>>, <<"dispatch", "B", 1>>,
                             <<"dispatch", "A", 2>>, <<"finish_work">>,
                             <<"dispatch", "A", 3>>, <<"finish_work">> >>

\* render_all has returned for the list of A and B
C8_Witness ==
    /\ tilesetlist = <<"A", "B">>
    /\ calls # <<>>
    /\ calls[Len(calls)] = <<"return">>
    /\ Len(HookSeq) = 6

\* render_all has returned and has not been called again
Returned == calls # <<>> /\ calls[Len(calls)] = <<"return">>

\* C9, as stated: when render_all has returned, close() has been called
\* and the resources are released: the sentinels are sent and the manager
\* is shut down.
C9_ClosedOnReturn ==
    Returned => (~manager_up /\ close_i = local_procs)

\* C9, amended: render_all returns without calling close(). The step by
\* which it returns leaves the dispatcher idle with the manager running and
\* no sentinel put.
C9_ReturnLeavesOpen ==
    [][(in_render_all /\ ~in_render_all')
          => /\ pc' = "idle"
             /\ manager_up'
             /\ close_i' = 0
             /\ \A i \in 1..Len(job_queue') : job_queue'[i] # None]_vars

\* render_all has returned, the pool is still there and nobody closed it
C9_Witness ==
    /\ Returned
    /\ pc = "idle"
    /\ budget = 1
    /\ manager_up
    /\ \A w \in Procs : wpc[w] = "get"

\* C10: version monotonicity and stamping. The version changes only in
\* set_tilesets, every set_tilesets call increases it by exactly 1, in the
\* manager's attribute and in the shared list; and every job that dispatch
\* puts on the job queue carries the version of the latest set_tilesets
\* call, all of which are complete by then.
C10_Versions ==
    /\ [][/\ (pc = "set_tilesets" /\ pc' # pc)
                => mgr_version' = mgr_version + 1
          /\ (pc = "set_tilesets_version" /\ pc' # pc)
                => tileset_data'[2] = tileset_data[2] + 1
          /\ mgr_version' # mgr_version => pc = "set_tilesets"
          /\ tileset_data'[2] # tileset_data[2] => pc = "set_tilesets_version"
         ]_vars
    /\ [][dispatched' = dispatched + 1
            => /\ job_queue' = Append(job_queue, job_queue'[Len(job_queue')])
               /\ job_queue'[Len(job_queue')][1] = Len(pubs)
               /\ job_queue'[Len(job_queue')][1] = tileset_data[2]
               /\ pubs[Len(pubs)] = tileset_data[1]]_vars

\* a job dispatched after the second publish waits in the queue
C10_Witness ==
    /\ Len(pubs) = 2
    /\ job_queue # <<>>
    /\ job_queue[Len(job_queue)] # None
    /\ job_queue[Len(job_queue)][1] = 2

\* ------------------------------------------------------------------ C11
\* the list most recently published by set_tilesets (none: the empty list
\* of line 101)
Published == IF pubs = <<>> THEN <<>> ELSE pubs[Len(pubs)]

\* C11: every call of dispatch with a tileset that is not in the most
\* recently published list fails with an error, puts no job on the job
\* queue and does not increment outstanding_jobs.
C11_ResolutionFailure ==
    [][(pc = "idle" /\ budget' # budget) =>
          \A t \in Tilesets \ Range(Published) : \A item \in AllItems(t) :
              CallDispatch(t, item)
                 => /\ raised' = "ValueError"
                    /\ job_queue' = job_queue
                    /\ outstanding_jobs' = outstanding_jobs]_vars

\* dispatch has failed for a tileset that is not in the published list,
\* while a list was published and a job of it was outstanding
C11_Witness ==
    /\ raised = "ValueError"
    /\ Published # <<>>
    /\ outstanding_jobs > 0
    /\ job_queue # <<>>

\* ------------------------------------------------------------------ C12
\* C12: a worker that has pulled a job of another version than its cached
\* one and, after one update_tilesets, still holds another version than the
\* job's, aborts: it neither executes the job nor puts a result, and from
\* then on it takes no step at all (no second resync, no further job).
C12_ProtocolViolationFatal ==
    /\ [][\A w \in Procs :
            (/\ wpc[w] = "update"
             /\ manager_up
             /\ wpc'[w] # "update"
             /\ wversion'[w] # wjob[w][1])
               => /\ wpc'[w] = "assert_failed"
                  /\ executed' = executed
                  /\ result_queue' = result_queue
                  /\ job_queue' = job_queue]_vars
    /\ [][\A w \in Procs :
            wpc[w] = "assert_failed"
               => /\ wpc'[w] = "assert_failed"
                  /\ wjob'[w] = wjob[w]
                  /\ wversion'[w] = wversion[w]
                  /\ wtilesets'[w] = wtilesets[w]]_vars

\* a worker has aborted on a job that is older than the version it fetched,
\* while another worker is waiting for jobs
C12_Witness ==
    \E w \in Procs :
        /\ wpc[w] = "assert_failed"
        /\ wversion[w] > wjob[w][1]
        /\ \E v \in Procs : wpc[v] = "get"

\* ------------------------------------------------------------------ C13
\* the ways run() ends with an exception while the manager is up
Aborted == {"assert_failed", "index_error", "do_work_raised"}

NoWorkerAborts == \A w \in Procs : wpc[w] \notin Aborted

\* C13: if no worker aborts (and every do_work returns), then with fairly
\* scheduled workers every finish_work that is called returns, and
\* outstanding_jobs is 0 when it returns; so every render_all that is
\* called returns.
C13_BarrierLiveness ==
    /\ [][(pc = "finish_work" /\ pc' \notin {"finish_work", "handle_messages"})
            => outstanding_jobs' = 0]_vars
    /\ ([]NoWorkerAborts) =>
          /\ (pc = "finish_work") ~> (pc = "phase" /\ outstanding_jobs = 0)
          /\ in_render_all ~> Returned

\* render_all has returned after both phases, every job dispatched was
\* executed and taken back, and no worker aborted
C13_Witness ==
    /\ Returned
    /\ NoWorkerAborts
    /\ phase = 2
    /\ dispatched = 4
    /\ drained = 4

\* ------------------------------------------------------------------ C14
\* the workers that ended with an exception while holding a job
Lost == {w \in Procs : wpc[w] \in Aborted /\ wjob[w] # None}

\* how often do_work has returned for the job that w holds
TimesExecuted(b, w) ==
    LET e == <<wtilesets[w][wjob[w][2] + 1], wjob[w][3]>>
    IN  IF wjob[w][2] + 1 \in DOMAIN wtilesets[w] /\ e \in DOMAIN b
        THEN b[e] ELSE 0

\* C14: once a worker has ended with an exception (do_work raised, or the
\* assertion failed) between pulling a job and putting its result, the
\* worker stays ended with that job, nothing puts the job on the job queue
\* again (the queue grows only by a dispatch or by the sentinels of close),
\* no worker executes it, outstanding_jobs stays above 0 and finish_work
\* does not return.
C14_NoRecovery ==
    /\ [][\A w \in Lost :
            /\ w \in Lost'
            /\ wjob'[w] = wjob[w]
            /\ TimesExecuted(executed', w) = TimesExecuted(executed, w)]_vars
    /\ [][(Lost # {} /\ Len(job_queue') > Len(job_queue))
            => (dispatched' = dispatched + 1 \/ pc = "close")]_vars
    /\ [](Lost # {} => outstanding_jobs > 0)
    /\ [][(Lost # {} /\ pc = "finish_work")
            => pc' \in {"finish_work", "handle_messages"}]_vars

\* do_work has raised in one worker; the other worker is alive and idle,
\* both queues are empty, and finish_work is waiting for the one job that
\* is lost
C14_Witness ==
    /\ \E w \in Lost : wpc[w] = "do_work_raised"
    /\ \E v \in Procs : wpc[v] = "get"
    /\ job_queue = <<>>
    /\ result_queue = <<>>
    /\ outstanding_jobs = 1
    /\ pc = "handle_messages"
    /\ hm_ret = "finish_work"

\* ------------------------------------------------------------------ C15
\* C15: in a run of render_all the first call is setup_tilesets(tilesetlist)
\* and there is no other call of it; it has published the list before
\* anything else is called; the calls after it are do_preprocessing of
\* each tileset of the list, once, in list order; and every dispatch comes
\* after all of these.
C15_StartupOrder ==
    calls # <<>> =>
        LET n == Len(tilesetlist)
        IN  /\ calls[1] = <<"setup_tilesets", tilesetlist>>
            /\ Len(calls) > 1 =>
                  /\ pubs = <<tilesetlist>>
                  /\ tileset_data = <<tilesetlist, mgr_version>>
            /\ \A i \in 2..Len(calls) :
                  IF i <= n + 1
                  THEN calls[i] = <<"do_preprocessing", tilesetlist[i - 1]>>
                  ELSE calls[i][1] \notin {"setup_tilesets", "do_preprocessing"}

\* the first dispatch of a run with MaxSources tilesets has just been made
C15_Witness ==
    /\ Len(tilesetlist) = MaxSources
    /\ Len(calls) = MaxSources + 2
    /\ calls[Len(calls)][1] = "dispatch"

\* ------------------------------------------------------------------ C16
\* worker w makes a get_tilesets call in this step (lines 144, 154, 167)
GetsTilesets(w) ==
    /\ wpc[w] \in {"start", "update"}
    /\ wpc'[w] \notin {wpc[w], "conn_lost"}

\* worker w pulls a job in this step
Pulls(w) == wpc[w] = "get" /\ wpc'[w] \in {"update", "do_work"}

\* C16: a worker that pulls a job of another version than the one it has
\* cached (an older one, when its cache is stale) calls get_tilesets next,
\* once and before do_work: the call leads to do_work or to the end of the
\* worker, never to a second call, and the version it fetches is at least
\* the job's. A worker that pulls a job of its cached version goes to
\* do_work, and while it holds a job that is past the resync it makes no
\* get_tilesets call (its cache stays as it is).
C16_LazyResync ==
    [][\A w \in Procs :
          /\ Pulls(w) =>
                /\ wversion'[w] = wversion[w]
                /\ wtilesets'[w] = wtilesets[w]
                /\ wversion[w] < wjob'[w][1] => wpc'[w] = "update"
                /\ wversion[w] = wjob'[w][1] => wpc'[w] = "do_work"
          /\ (wpc[w] = "update" /\ GetsTilesets(w)) =>
                /\ wpc'[w] \in {"do_work", "assert_failed"}
                /\ wversion'[w] = tileset_data[2]
                /\ wtilesets'[w] = tileset_data[1]
                /\ wversion'[w] >= wjob[w][1]
                /\ executed' = executed
          /\ wpc[w] \in {"do_work", "put"} =>
                /\ wpc'[w] # "update"
                /\ wversion'[w] = wversion[w]
                /\ wtilesets'[w] = wtilesets[w]]_vars

\* a worker that has started, and has cached version 1 with its list, has
\* pulled a job of version 2, the version that is published by now with
\* another list
C16_Witness ==
    \E w \in Procs :
        /\ wpc[w] = "update"
        /\ wversion[w] = 1
        /\ wtilesets[w] = pubs[1]
        /\ wjob[w][1] = 2
        /\ tileset_data = <<pubs[2], 2>>
        /\ pubs[1] # pubs[2]

\* ------------------------------------------------------------------ C17
\* C17: cooperative close. Once close() is over and every worker has ended,
\* by its sentinel or with the manager, every job that was put on the job
\* queue has been pulled and executed and its result has been put: no job
\* is left in the queue or in a worker, and there are as many results as
\* jobs.
C17_CooperativeClose ==
    (pc = "closed" /\ \A w \in Procs : wpc[w] \in {"returned", "conn_lost"})
        => /\ \A i \in 1..Len(job_queue) : job_queue[i] = None
           /\ \A w \in Procs : wjob[w] = None
           /\ Len(result_queue) + drained = dispatched

\* ------------------------------------------------------------------ C18
\* C18: under render_all alone the assertion of line 168 never fails,
\* because every job that is queued or held by a worker carries the version
\* that is current: none of an older version is left when set_tilesets
\* publishes again.
C18_AssertionHolds ==
    /\ \A w \in Procs : wpc[w] # "assert_failed"
    /\ \A i \in 1..Len(job_queue) :
          job_queue[i] # None => job_queue[i][1] = mgr_version
    /\ \A w \in Holding : wjob[w][1] = mgr_version

\* the second render_all is running: one worker has passed the version
\* test for a job of version 2, while another one, whose start-up
\* get_tilesets fell between the two writes of the first set_tilesets (the
\* new list with version 0), has pulled its first job and is about to
\* resync
C18_Witness ==
    /\ \E w \in Procs :
          wpc[w] = "do_work" /\ wjob[w][1] = 2 /\ wversion[w] = 2
    /\ \E v \in Procs :
          /\ wpc[v] = "update"
          /\ wversion[v] = 0
          /\ wtilesets[v] # <<>>
          /\ wjob[v][1] = 2

\* ------------------------------------------------------------------ C19
\* the jobs waiting in the job queue (the sentinels of close are no jobs)
RealJobs == Cardinality({i \in 1..Len(job_queue) : job_queue[i] # None})

\* C19: job conservation. While no worker has aborted, outstanding_jobs is
\* the number of jobs waiting in the job queue, plus the jobs held by
\* workers, plus the results waiting in the result queue; every job
\* render_all has dispatched in this run is waiting, held and not yet
\* executed, or executed exactly once; and outstanding_jobs is at most
\* local_procs * K + 1.
C19_Conservation ==
    NoWorkerAborts =>
        /\ outstanding_jobs =
              RealJobs + Cardinality(Holding) + Len(result_queue)
        /\ Len(DispatchSeq) =
              RealJobs
              + Cardinality({w \in Procs : wpc[w] \in {"update", "do_work"}})
              + BagSum(executed, DOMAIN executed)
        /\ outstanding_jobs <= local_procs * K + 1

\* outstanding_jobs is at its maximum with MaxProcs workers, and there are
\* jobs waiting, jobs held by every worker and results waiting
C19_Witness ==
    /\ local_procs = MaxProcs
    /\ outstanding_jobs = MaxProcs * K + 1
    /\ RealJobs > 0
    /\ Cardinality(Holding) = MaxProcs
    /\ Len(result_queue) > 0
    /\ NoWorkerAborts

\* ------------------------------------------------------------------ C20
\* the bag of the elements of a sequence
BagOfSeq(seq) ==
    [e \in Range(seq) |-> Cardinality({i \in 1..Len(seq) : seq[i] = e})]

\* the do_work calls the workers have made for work items of phase p
ExecutedBag(p) ==
    [e \in {x \in DOMAIN executed : PhaseOf(x[1], x[2]) = p} |-> executed[e]]

\* bag b has no element more often than bag c
SubBag(b, c) ==
    \A e \in DOMAIN b : e \in DOMAIN c /\ b[e] <= c[e]

\* C20: in a run of render_all the workers' do_work calls are, phase by
\* phase, those of render_all on the base Dispatcher for the same list:
\* for a phase that is finished, the same bag of (tileset, workitem) pairs;
\* for the current phase, a part of it; for a later phase, none yet. Every
\* do_work call is for a tileset of the list.
C20_Refinement ==
    calls # <<>> =>
        /\ \A e \in DOMAIN executed : e[1] \in Range(tilesetlist)
        /\ \A p \in 0..(max_phases(tilesetlist) - 1) :
              LET sequential == BagOfSeq(SequentialWork(tilesetlist, p))
              IN  /\ p < phase => ExecutedBag(p) = sequential
                  /\ p = phase => SubBag(ExecutedBag(p), sequential)
                  /\ p > phase => ExecutedBag(p) = EmptyBag

\* render_all of <<"A", "B">> has returned with two workers: both phases
\* are finished, with three and one do_work calls
C20_Witness ==
    /\ Returned
    /\ tilesetlist = <<"A", "B">>
    /\ local_procs = 2
    /\ phase = 2
    /\ ExecutedBag(0) =
          (<<"A", 1>> :> 1) @@ (<<"A", 2>> :> 1) @@ (<<"B", 1>> :> 1)
    /\ ExecutedBag(1) = (<<"A", 3>> :> 1)

====
